---------------------------- MODULE Spec2Model ----------------------------
(***************************************************************************)
(* Heads-up Texas Hold'em (src/src/main.rs): the hand evaluator, the       *)
(* betting state machine of PokerGame, the showdown, and the window        *)
(* callbacks of AppState/main that drive them.                             *)
(*                                                                         *)
(* Not modelled: the display-only fields (Card.rank as text, Player.name,  *)
(* Player.last_action), the debug log and the window properties.           *)
(***************************************************************************)
EXTENDS Integers, Sequences, FiniteSets, TLC

(***************************************************************************)
(* Program constants (main.rs:8-13).                                       *)
(***************************************************************************)
STARTING_CHIPS == 1000
SMALL_BLIND == 10
BIG_BLIND == 20
MIN_RAISE == 20
MIN_BET_AMOUNT == 30
MAX_BET_AMOUNT == 150

(***************************************************************************)
(* Bounds of the model.                                                    *)
(***************************************************************************)
\* callbacks and bot moves in one session of the program
MaxEvents == 7
\* callbacks and bot moves in a session started on a chosen deal
MaxHandEvents == 6
\* calls, checks and bot moves in a chosen deal that is checked down
MaxCheckDownEvents == 6
\* checks, calls, raises and bot moves in a chosen deal that is bet down
MaxBetDownEvents == 7
\* callbacks and bot moves in a session without the call and fold buttons
MaxStackEvents == 9

(***************************************************************************)
(* Small helpers standing for the Rust library calls the code uses.        *)
(***************************************************************************)
Max2(a, b) == IF a >= b THEN a ELSE b
Min2(a, b) == IF a <= b THEN a ELSE b
SetMax(S) == CHOOSE x \in S : \A y \in S : y <= x
SetMin(S) == CHOOSE x \in S : \A y \in S : x <= y
Range(s) == {s[i] : i \in 1..Len(s)}
\* Iterator::max().copied().unwrap_or(0)
MaxOr0(s) == IF Len(s) = 0 THEN 0 ELSE SetMax(Range(s))
\* Iterator::take(n)
Take(s, n) == SubSeq(s, 1, Min2(n, Len(s)))
\* Iterator::skip(n)
Skip(s, n) == SubSeq(s, n + 1, Len(s))
\* Option<i32>: None is <<>>, Some(x) is <<x>>
None == <<>>
Some(x) == <<x>>
unwrap_or(o, d) == IF o = None THEN d ELSE o[1]

RECURSIVE SortedSeq(_)
\* the ascending sequence of the members of a finite set of integers
SortedSeq(S) == IF S = {} THEN <<>>
                ELSE LET m == SetMin(S) IN <<m>> \o SortedSeq(S \ {m})

(***************************************************************************)
(* Cards.  A card is its value (2..14) and its suit (the index, 0..3, of   *)
(* the suit in create_deck's suits array).                                 *)
(***************************************************************************)
Suits == 0..3
Values == 2..14
Card(v, s) == [value |-> v, suit |-> s]

\* HandRank as its discriminant (main.rs:46-56)
HighCard == 0
Pair == 1
TwoPair == 2
ThreeOfAKind == 3
Straight == 4
Flush == 5
FullHouse == 6
FourOfAKind == 7
StraightFlush == 8

(***************************************************************************)
(* evaluate_hand (main.rs:67-276).                                         *)
(***************************************************************************)
\* all_cards after sort_by_key (stable) and dedup_by_key: one entry per
\* distinct value, ascending, each with the suit of the first card of that
\* value in hole-then-community order.
dedup_values(all) == SortedSeq({all[i].value : i \in 1..Len(all)})
dedup_suits(all) ==
    LET values == dedup_values(all)
        first(v) == SetMin({i \in 1..Len(all) : all[i].value = v})
    IN [k \in 1..Len(values) |-> all[first(values[k])].suit]

\* max_suit_count over the suits that survive the dedup
max_suit_count(suits) ==
    IF Len(suits) = 0 THEN 0
    ELSE SetMax({Cardinality({i \in 1..Len(suits) : suits[i] = s}) : s \in Range(suits)})

\* the window scan and the wheel test (main.rs:99-136)
is_straight_of(values) ==
    /\ Len(values) >= 5
    /\ \/ \E i \in 1..(Len(values) - 4) :
             \A j \in 0..3 : values[i + j + 1] - values[i + j] = 1
       \/ /\ values[Len(values)] - values[1] = 12
          /\ 14 \in Range(values)
          /\ 2 \in Range(values)
          /\ \A v \in {2, 3, 4, 5, 14} : v \in Range(values)

\* straight_high (main.rs:100-140): the largest value, or 0 under 5 values
straight_high_of(values) == IF Len(values) >= 5 THEN MaxOr0(values) ELSE 0

\* value_counts is built from the de-duplicated values (main.rs:142-148)
value_count(values, v) == Cardinality({i \in 1..Len(values) : values[i] = v})
values_with_count(values, c) == {v \in Range(values) : value_count(values, v) = c}

EvaluatedHand(r, p, s, k) ==
    [rank |-> r, primary_value |-> p, secondary_values |-> s, kickers |-> k]

evaluate_hand(hole_cards, community_cards) ==
    LET all == hole_cards \o community_cards
        values == dedup_values(all)
        suits == dedup_suits(all)
        is_flush == max_suit_count(suits) >= 5
        is_straight == is_straight_of(values)
        straight_high == straight_high_of(values)
        four_of_kind == values_with_count(values, 4)
        three_of_kind == values_with_count(values, 3)
        pairs == values_with_count(values, 2)
        has_full_house == three_of_kind # {} /\ pairs # {}
        has_three_of_kind == three_of_kind # {}
        has_two_pair == Cardinality(pairs) >= 2
    IN
    IF is_flush /\ is_straight THEN
        EvaluatedHand(StraightFlush, straight_high, <<>>, <<>>)
    ELSE IF four_of_kind # {} THEN
        \* four_of_kind[0]: the map's iteration order picks it
        LET four_val == CHOOSE v \in four_of_kind : TRUE
            NotFour(v) == v # four_val
        IN EvaluatedHand(FourOfAKind, four_val,
                         <<MaxOr0(SelectSeq(values, NotFour))>>, <<>>)
    ELSE IF has_full_house THEN
        LET three_val == CHOOSE v \in three_of_kind : TRUE
            pair_val == CHOOSE v \in pairs : TRUE
        IN EvaluatedHand(FullHouse, three_val, <<pair_val>>, <<>>)
    ELSE IF is_flush THEN
        LET sorted_flush == Take(values, 5)
            NotInFlush(v) == v \notin Range(sorted_flush)
        IN EvaluatedHand(Flush, MaxOr0(sorted_flush), Skip(sorted_flush, 1),
                         Take(SelectSeq(values, NotInFlush), 2))
    ELSE IF is_straight THEN
        EvaluatedHand(Straight, straight_high, <<>>, <<>>)
    ELSE IF has_three_of_kind THEN
        LET three_val == CHOOSE v \in three_of_kind : TRUE
            NotThree(v) == v # three_val
        IN EvaluatedHand(ThreeOfAKind, three_val,
                         Take(SelectSeq(values, NotThree), 2), <<>>)
    ELSE IF has_two_pair THEN
        LET high_pair == SetMax(pairs)
            low_pair == SetMax(pairs \ {high_pair})
            NotPair(v) == v \notin pairs
        IN EvaluatedHand(TwoPair, high_pair,
                         <<low_pair, MaxOr0(SelectSeq(values, NotPair))>>, <<>>)
    ELSE IF Cardinality(pairs) = 1 THEN
        LET pair_val == CHOOSE v \in pairs : TRUE
            NotPairVal(v) == v # pair_val
        IN EvaluatedHand(Pair, pair_val,
                         Take(SelectSeq(values, NotPairVal), 3), <<>>)
    ELSE
        LET top_five == Take(values, 5)
        IN EvaluatedHand(HighCard, MaxOr0(top_five), Skip(top_five, 1), <<>>)

(***************************************************************************)
(* compare_hands (main.rs:278-295): the sign carries the order.            *)
(***************************************************************************)
\* compare_hands reporting the distance between the primary values
compare_hands_distance(hand1, hand2) ==
    IF hand1.rank # hand2.rank THEN hand1.rank - hand2.rank
    ELSE IF hand1.primary_value # hand2.primary_value
         THEN Max2(hand1.primary_value - hand2.primary_value,
                   hand2.primary_value - hand1.primary_value)
    ELSE LET n == Min2(Len(hand1.secondary_values), Len(hand2.secondary_values))
             diff == {i \in 1..n : hand1.secondary_values[i] # hand2.secondary_values[i]}
         IN IF diff = {} THEN 0
            ELSE hand1.secondary_values[SetMin(diff)]
                   - hand2.secondary_values[SetMin(diff)]

compare_hands(hand1, hand2) ==
    IF hand1.rank # hand2.rank THEN hand1.rank - hand2.rank
    ELSE IF hand1.primary_value # hand2.primary_value
         THEN hand1.primary_value - hand2.primary_value
    ELSE LET n == Min2(Len(hand1.secondary_values), Len(hand2.secondary_values))
             diff == {i \in 1..n : hand1.secondary_values[i] # hand2.secondary_values[i]}
         IN IF diff = {} THEN 0
            ELSE hand1.secondary_values[SetMin(diff)]
                   - hand2.secondary_values[SetMin(diff)]


(***************************************************************************)
(* Player and PokerGame (main.rs:297-364).  Seats are the indices of       *)
(* PokerGame.players: seat 0 is the user, seat 1 the bot.                  *)
(***************************************************************************)
Seats == {0, 1}
NumPlayers == Cardinality(Seats)

\* Player::new (main.rs:307-317)
Player_new(is_user) ==
    [chips |-> STARTING_CHIPS, bet |-> 0, cards |-> <<>>, is_user |-> is_user]

\* PokerGame::new (main.rs:346-364)
PokerGame_new ==
    [deck |-> <<>>,
     community_cards |-> <<>>,
     players |-> [i \in Seats |-> Player_new(i = 0)],
     current_player |-> 0,
     phase |-> "PreFlop",
     pot |-> 0,
     current_bet |-> 0,
     dealer_position |-> 0,
     small_blind |-> SMALL_BLIND,
     big_blind |-> BIG_BLIND,
     hand_complete |-> FALSE,
     showdown_done |-> FALSE,
     game_over |-> FALSE]

\* create_deck (main.rs:366-379): values outermost, suits innermost
create_deck ==
    [i \in 1..52 |-> Card(2 + ((i - 1) \div 4), (i - 1) % 4)]

\* shuffle_deck (main.rs:381-384): the random permutation is an input.
\* A seed <<a, b>> with a coprime to 52 stands for the permutation
\* i |-> a*i + b (mod 52) of the positions; a seed of nine cards stands for
\* a permutation that leaves those cards to be dealt first, in that order
\* (deal_card pops from the end of the deck).
Reverse(s) == [i \in 1..Len(s) |-> s[Len(s) + 1 - i]]
shuffle_deck(deck, seed) ==
    IF Len(seed) = 2
    THEN [i \in 1..52 |-> deck[((seed[1] * (i - 1) + seed[2]) % 52) + 1]]
    ELSE LET NotOnTop(c) == c \notin Range(seed)
         IN SelectSeq(deck, NotOnTop) \o Reverse(seed)

\* deal_card (main.rs:386-388): Vec::pop, the last card of the deck;
\* <<>> stands for the None of an empty deck.
dealt(deck, n) ==
    LET k == Min2(n, Len(deck))
    IN [i \in 1..k |-> deck[Len(deck) + 1 - i]]
\* a deal_card that reads the last card and leaves it in the deck
after_deal_keeps(deck, n) == deck
after_deal(deck, n) == SubSeq(deck, 1, Len(deck) - Min2(n, Len(deck)))

\* post_blinds with the two blind seats exchanged
post_blinds_swapped(g) ==
    LET sb_player == (g.dealer_position + 2) % NumPlayers
        bb_player == (g.dealer_position + 1) % NumPlayers
        p1 == [g.players EXCEPT ![sb_player].bet = g.small_blind,
                                ![sb_player].chips = @ - g.small_blind]
        p2 == [p1 EXCEPT ![bb_player].bet = g.big_blind,
                         ![bb_player].chips = @ - g.big_blind]
    IN [g EXCEPT !.players = p2,
                 !.current_bet = g.big_blind,
                 !.pot = @ + g.small_blind + g.big_blind]

\* post_blinds (main.rs:460-484)
post_blinds(g) ==
    LET sb_player == (g.dealer_position + 1) % NumPlayers
        bb_player == (g.dealer_position + 2) % NumPlayers
        p1 == [g.players EXCEPT ![sb_player].bet = g.small_blind,
                                ![sb_player].chips = @ - g.small_blind]
        p2 == [p1 EXCEPT ![bb_player].bet = g.big_blind,
                         ![bb_player].chips = @ - g.big_blind]
    IN [g EXCEPT !.players = p2,
                 !.current_bet = g.big_blind,
                 !.pot = @ + g.small_blind + g.big_blind]

\* deal_hole_cards (main.rs:486-507): two cards to seat 0, then two to seat 1
deal_hole_cards(g) ==
    LET d0 == g.deck
        d1 == after_deal(d0, 2)
        d2 == after_deal(d1, 2)
    IN [g EXCEPT !.players[0].cards = @ \o dealt(d0, 2),
                 !.players[1].cards = @ \o dealt(d1, 2),
                 !.deck = d2]

\* deal_community_cards that puts the new cards in place of the old ones
deal_community_cards_replaces(g, count) ==
    [g EXCEPT !.community_cards = dealt(g.deck, count),
              !.deck = after_deal(g.deck, count)]

\* deal_community_cards (main.rs:509-515)
deal_community_cards(g, count) ==
    [g EXCEPT !.community_cards = @ \o dealt(g.deck, count),
              !.deck = after_deal(g.deck, count)]

\* start_hand (main.rs:390-458)
start_hand(g, seed) ==
    LET reset == [g EXCEPT
                    !.deck = shuffle_deck(create_deck, seed),
                    !.community_cards = <<>>,
                    !.pot = 0,
                    !.current_bet = 0,
                    !.phase = "PreFlop",
                    !.hand_complete = FALSE,
                    !.showdown_done = FALSE,
                    !.game_over = FALSE,
                    !.players = [i \in Seats |->
                                   [g.players[i] EXCEPT !.bet = 0, !.cards = <<>>]]]
        h == deal_hole_cards(post_blinds(reset))
    IN [h EXCEPT !.current_player = (g.dealer_position + 3) % NumPlayers]

\* get_next_player / move_to_next_player (main.rs:573-585)
get_next_player(g) == (g.current_player + 1) % NumPlayers
move_to_next_player(g) == [g EXCEPT !.current_player = get_next_player(g)]

\* all_players_matched that is content with one matching player
all_players_matched_some(g) ==
    \E i \in Seats :
        g.players[i].bet = g.current_bet \/ g.players[i].cards = <<>>

\* all_players_matched (main.rs:577-581)
all_players_matched(g) ==
    \A i \in Seats :
        g.players[i].bet = g.current_bet \/ g.players[i].cards = <<>>

(***************************************************************************)
(* player_action (main.rs:587-654): the result is the returned bool and    *)
(* the game as the call leaves it.  The acting seat is current_player.     *)
(***************************************************************************)
Result(ok, g) == [ok |-> ok, g |-> g]

\* "fold" (main.rs:592-598)
action_fold(g) ==
    Result(TRUE, move_to_next_player(
        [g EXCEPT !.players[g.current_player].cards = <<>>]))

\* "check" (main.rs:599-606)
action_check(g) ==
    IF g.players[g.current_player].bet >= g.current_bet
    THEN Result(TRUE, move_to_next_player(g))
    ELSE Result(FALSE, g)

\* "bet" | "raise" that leaves current_bet as it was
action_raise_keeps_current_bet(g, bet_amount) ==
    LET player == g.players[g.current_player]
        to_bet == Max2(bet_amount, g.current_bet + MIN_RAISE)
        call_part == Max2(g.current_bet - player.bet, 0)
        actual_bet == to_bet - call_part
    IN IF player.chips >= to_bet
       THEN Result(TRUE, move_to_next_player(
                [g EXCEPT !.players[g.current_player].chips = (@ - call_part) - actual_bet,
                          !.players[g.current_player].bet = to_bet,
                          !.pot = @ + to_bet]))
       ELSE Result(FALSE, g)

\* "bet" | "raise" (main.rs:607-623)
action_raise(g, bet_amount) ==
    LET player == g.players[g.current_player]
        to_bet == Max2(bet_amount, g.current_bet + MIN_RAISE)
        call_part == Max2(g.current_bet - player.bet, 0)
        actual_bet == to_bet - call_part
    IN IF player.chips >= to_bet
       THEN Result(TRUE, move_to_next_player(
                [g EXCEPT !.players[g.current_player].chips = (@ - call_part) - actual_bet,
                          !.players[g.current_player].bet = to_bet,
                          !.current_bet = to_bet,
                          !.pot = @ + to_bet]))
       ELSE Result(FALSE, g)

\* "call" that passes the turn even when it is rejected
action_call_passes_turn(g) ==
    LET player == g.players[g.current_player]
        call_amount == g.current_bet - player.bet
    IN IF player.chips >= call_amount
       THEN Result(TRUE, move_to_next_player(
                [g EXCEPT !.players[g.current_player].chips = @ - call_amount,
                          !.players[g.current_player].bet = g.current_bet,
                          !.pot = @ + call_amount]))
       ELSE Result(FALSE, move_to_next_player(g))

\* "call" (main.rs:624-635)
action_call(g) ==
    LET player == g.players[g.current_player]
        call_amount == g.current_bet - player.bet
    IN IF player.chips >= call_amount
       THEN Result(TRUE, move_to_next_player(
                [g EXCEPT !.players[g.current_player].chips = @ - call_amount,
                          !.players[g.current_player].bet = g.current_bet,
                          !.pot = @ + call_amount]))
       ELSE Result(FALSE, g)

\* "all-in" that always makes the player's bet the bet to match
action_all_in_sets_bet(g) ==
    LET player == g.players[g.current_player]
        all_in == player.chips
        new_bet == player.bet + all_in
    IN IF all_in > 0
       THEN Result(TRUE, move_to_next_player(
                [g EXCEPT !.players[g.current_player].chips = 0,
                          !.players[g.current_player].bet = new_bet,
                          !.pot = @ + all_in,
                          !.current_bet = new_bet]))
       ELSE Result(FALSE, g)

\* "all-in" that adds the player's whole bet, not the chips moved, to the pot
action_all_in_pots_bet(g) ==
    LET player == g.players[g.current_player]
        all_in == player.chips
        new_bet == player.bet + all_in
    IN IF all_in > 0
       THEN Result(TRUE, move_to_next_player(
                [g EXCEPT !.players[g.current_player].chips = 0,
                          !.players[g.current_player].bet = new_bet,
                          !.pot = @ + new_bet,
                          !.current_bet = IF new_bet > @ THEN new_bet ELSE @]))
       ELSE Result(FALSE, g)

\* "all-in" (main.rs:636-650)
action_all_in(g) ==
    LET player == g.players[g.current_player]
        all_in == player.chips
        new_bet == player.bet + all_in
    IN IF all_in > 0
       THEN Result(TRUE, move_to_next_player(
                [g EXCEPT !.players[g.current_player].chips = 0,
                          !.players[g.current_player].bet = new_bet,
                          !.pot = @ + all_in,
                          !.current_bet = IF new_bet > @ THEN new_bet ELSE @]))
       ELSE Result(FALSE, g)

player_action(g, action, amount) ==
    LET bet_amount == unwrap_or(amount, 0)
    IN CASE action = "fold" -> action_fold(g)
         [] action = "check" -> action_check(g)
         [] action \in {"bet", "raise"} -> action_raise(g, bet_amount)
         [] action = "call" -> action_call(g)
         [] action = "all-in" -> action_all_in(g)
         [] OTHER -> Result(FALSE, g)

(***************************************************************************)
(* The showdown (main.rs:831-913).                                         *)
(***************************************************************************)
active_players(g) == {i \in Seats : g.players[i].cards # <<>>}

\* the payout with each half of a split pot rounded up
showdown_payout_rounds_up(g) ==
    LET active == active_players(g)
        user_eval == evaluate_hand(g.players[0].cards, g.community_cards)
        bot_eval == evaluate_hand(g.players[1].cards, g.community_cards)
        comparison == compare_hands(user_eval, bot_eval)
    IN IF Cardinality(active) = 1 THEN
           LET winner_idx == CHOOSE i \in active : TRUE
           IN [g EXCEPT !.players[winner_idx].chips = @ + g.pot,
                        !.game_over = TRUE]
       ELSE IF Cardinality(active) = 2 THEN
           IF comparison > 0 THEN [g EXCEPT !.players[0].chips = @ + g.pot]
           ELSE IF comparison < 0 THEN [g EXCEPT !.players[1].chips = @ + g.pot]
           ELSE [g EXCEPT !.players[0].chips = @ + ((g.pot + 1) \div 2),
                          !.players[1].chips = @ + ((g.pot + 1) \div 2)]
       ELSE g

\* the payout of an unresolved hand (main.rs:868-904)
showdown_payout(g) ==
    LET active == active_players(g)
        user_eval == evaluate_hand(g.players[0].cards, g.community_cards)
        bot_eval == evaluate_hand(g.players[1].cards, g.community_cards)
        comparison == compare_hands(user_eval, bot_eval)
    IN IF Cardinality(active) = 1 THEN
           LET winner_idx == CHOOSE i \in active : TRUE
           IN [g EXCEPT !.players[winner_idx].chips = @ + g.pot,
                        !.game_over = TRUE]
       ELSE IF Cardinality(active) = 2 THEN
           IF comparison > 0 THEN [g EXCEPT !.players[0].chips = @ + g.pot]
           ELSE IF comparison < 0 THEN [g EXCEPT !.players[1].chips = @ + g.pot]
           ELSE [g EXCEPT !.players[0].chips = @ + (g.pot \div 2),
                          !.players[1].chips = @ + (g.pot \div 2)]
       ELSE g

\* do_showdown without its showdown_done guard
do_showdown_unguarded(g) ==
    [showdown_payout([g EXCEPT !.showdown_done = TRUE])
        EXCEPT !.hand_complete = TRUE]

\* do_showdown (main.rs:831-913)
do_showdown(g) ==
    IF g.showdown_done THEN g
    ELSE [showdown_payout([g EXCEPT !.showdown_done = TRUE])
            EXCEPT !.hand_complete = TRUE]

(***************************************************************************)
(* Phase transitions (main.rs:517-561, 824-829).                           *)
(***************************************************************************)
\* finish_phase_transition that leaves the turn where the last action put it
finish_phase_transition_keeps_turn(g) ==
    [g EXCEPT !.current_bet = 0,
              !.players = [i \in Seats |-> [g.players[i] EXCEPT !.bet = 0]]]

\* finish_phase_transition (main.rs:545-561)
finish_phase_transition(g) ==
    [g EXCEPT !.current_bet = 0,
              !.players = [i \in Seats |-> [g.players[i] EXCEPT !.bet = 0]],
              !.current_player = (g.dealer_position + 1) % NumPlayers]

\* next_phase (main.rs:517-543)
next_phase(g) ==
    CASE g.phase = "PreFlop" ->
           finish_phase_transition([deal_community_cards(g, 3) EXCEPT !.phase = "Flop"])
      [] g.phase = "Flop" ->
           finish_phase_transition([deal_community_cards(g, 1) EXCEPT !.phase = "Turn"])
      [] g.phase = "Turn" ->
           finish_phase_transition([deal_community_cards(g, 1) EXCEPT !.phase = "River"])
      [] g.phase = "River" -> do_showdown([g EXCEPT !.phase = "Showdown"])
      [] g.phase = "Showdown" -> finish_phase_transition(g)

\* check_phase_complete (main.rs:824-829)
check_phase_complete(g) == IF all_players_matched(g) THEN next_phase(g) ELSE g

\* is_user_turn / is_bot_turn / is_game_over (main.rs:915-925, 937-939)
is_user_turn(g) ==
    g.players[g.current_player].is_user /\ ~g.hand_complete /\ g.phase # "Showdown"
is_bot_turn(g) ==
    ~g.players[g.current_player].is_user /\ ~g.hand_complete /\ g.phase # "Showdown"
is_game_over(g) == g.game_over \/ \E i \in Seats : g.players[i].chips <= 0

(***************************************************************************)
(* make_bot_move (main.rs:656-822).  The random draws are inputs: the set  *)
(* of actions the thresholds leave open, and the amounts gen_range can     *)
(* return.                                                                 *)
(***************************************************************************)
bot_to_call(g) ==
    Max2(g.current_bet - g.players[g.current_player].bet, 0)

bot_hand_strength(g) ==
    LET bot_hand == evaluate_hand(g.players[g.current_player].cards, g.community_cards)
    IN bot_hand.rank * 100 + bot_hand.primary_value

\* the actions either side of each rng.gen_range(0..100) < t test (main.rs:709-805)
bot_action_choices(g) ==
    LET hand_strength == bot_hand_strength(g)
        to_call == bot_to_call(g)
    IN IF hand_strength >= 700 THEN
           IF g.phase = "PreFlop" /\ to_call = 0 THEN {"raise", "check"}
           ELSE IF g.phase = "PreFlop" THEN {"call", "raise"}
           ELSE {"raise", "call"}
       ELSE IF hand_strength >= 300 THEN
           \* the >= 500 and >= 300 arms choose between the same actions
           IF g.phase = "PreFlop" /\ to_call = 0 THEN {"check", "bet"}
           ELSE IF g.phase = "PreFlop" THEN {"call", "raise"}
           ELSE {"call", "raise"}
       ELSE
           IF g.phase = "PreFlop" /\ to_call = 0 THEN {"check", "fold"}
           ELSE IF g.phase = "PreFlop" THEN {"call", "fold"}
           ELSE {"call", "fold"}

\* base_amount (main.rs:809-815)
bot_base_amount(g) ==
    LET hand_strength == bot_hand_strength(g)
        player_chips == g.players[g.current_player].chips
    IN IF hand_strength >= 700 THEN Min2(player_chips, MAX_BET_AMOUNT + 50)
       ELSE IF hand_strength >= 500 THEN Min2(player_chips, MAX_BET_AMOUNT)
       ELSE Min2(player_chips, MIN_BET_AMOUNT + 20)

\* rng.gen_range(low..=high) panics on an empty range and otherwise
\* returns any value of low..=high.
gen_range_panics(low, high) == low > high
gen_range_draws(low, high) == low..high

\* The moves make_bot_move can make in g: <<action, amount>> handed to
\* player_action, or "panic" where gen_range is given an empty range.
bot_moves(g) ==
    IF g.hand_complete \/ g.phase = "Showdown" THEN {}
    ELSE UNION {
           IF action \in {"bet", "raise"} THEN
               IF gen_range_panics(MIN_BET_AMOUNT, bot_base_amount(g))
               THEN {[kind |-> "panic", action |-> action, amount |-> 0]}
               ELSE {[kind |-> "move", action |-> action, amount |-> a] :
                       a \in gen_range_draws(MIN_BET_AMOUNT, bot_base_amount(g))}
           ELSE {[kind |-> "move", action |-> action, amount |-> 0]}
         : action \in bot_action_choices(g)}

(***************************************************************************)
(* The running program: the game object, the position of the event loop    *)
(* (idle between callbacks, or inside process_bot_turn's loop), and a      *)
(* record of the most recent call that changed the game.                   *)
(***************************************************************************)
VARIABLES
    game,    \* AppState.game
    pc,      \* "idle" | "bot" (in process_bot_turn's loop) | "panicked"
    last,    \* the last start_hand / player_action call: its arguments,
             \* its result, and the game before and after the call itself
    events   \* callbacks and bot moves so far

vars == <<game, pc, last, events>>

\* the shuffles the model draws from
Seeds == {<<1, 0>>, <<7, 0>>, <<3, 1>>}

Call(op, action, amount, seat, ok, before, after) ==
    [op |-> op, action |-> action, amount |-> amount, seat |-> seat,
     ok |-> ok, before |-> before, after |-> after]

\* main (main.rs:1129-1135): a new game, and start_hand at once
Init ==
    \E seed \in Seeds :
        /\ game = start_hand(PokerGame_new, seed)
        /\ pc = "idle"
        /\ last = Call("start_hand", "", None, 0, TRUE, PokerGame_new,
                       start_hand(PokerGame_new, seed))
        /\ events = 0

\* process_action (main.rs:1063-1103); the bot's turn that may follow is
\* taken loop iteration by loop iteration in BotStep
process_action(action, amount) ==
    LET r == player_action(game, action, amount)
    IN /\ pc = "idle"
       /\ game' = IF r.ok THEN check_phase_complete(r.g) ELSE r.g
       /\ pc' = IF r.ok /\ is_bot_turn(game') THEN "bot" ELSE "idle"
       /\ last' = Call("player_action", action, amount, game.current_player,
                       r.ok, game, r.g)
       /\ events' = events + 1

\* the window callbacks (main.rs:1139-1171)
OnCheck == process_action("check", None)
OnCall == process_action("call", None)
OnFold == process_action("fold", None)
OnRaise == process_action("raise", Some(game.current_bet + MIN_RAISE))
OnAllIn == process_action("all-in", None)

\* the game-over arm of on_new_hand (main.rs:1178-1199)
new_hand_game_over(g) ==
    IF g.game_over
    THEN [g EXCEPT !.players = [i \in Seats |->
                                  [g.players[i] EXCEPT !.chips = STARTING_CHIPS]],
                   !.dealer_position = 0,
                   !.game_over = FALSE]
    ELSE g

\* on_new_hand (main.rs:1173-1207)
OnNewHand ==
    /\ pc = "idle"
    /\ IF is_game_over(game) THEN
           /\ game' = new_hand_game_over(game)
           /\ last' = Call("game_over", "", None, 0, TRUE, game, game')
       ELSE
           \E seed \in Seeds :
               LET g == [game EXCEPT !.dealer_position = (@ + 1) % 2]
               IN /\ game' = start_hand(g, seed)
                  /\ last' = Call("start_hand", "", None, 0, TRUE, g, game')
    /\ pc' = "idle"
    /\ events' = events + 1

\* one iteration of process_bot_turn's loop (main.rs:1046-1060):
\* make_bot_move, then check_phase_complete, then the loop's exit tests
BotStep ==
    /\ pc = "bot"
    /\ \E m \in bot_moves(game) :
         IF m.kind = "panic" THEN
             /\ pc' = "panicked"
             /\ UNCHANGED <<game, last>>
         ELSE
             LET r == player_action(game, m.action, Some(m.amount))
             IN /\ game' = check_phase_complete(r.g)
                /\ pc' = IF is_bot_turn(game') THEN "bot" ELSE "idle"
                /\ last' = Call("player_action", m.action, Some(m.amount),
                                game.current_player, r.ok, game, r.g)
    /\ events' = events + 1

\* a session of at most MaxEvents callbacks and bot moves
Next ==
    \/ events < MaxEvents /\ OnCheck
    \/ events < MaxEvents /\ OnCall
    \/ events < MaxEvents /\ OnFold
    \/ events < MaxEvents /\ OnRaise
    \/ events < MaxEvents /\ OnAllIn
    \/ events < MaxEvents /\ OnNewHand
    \/ events < MaxEvents /\ BotStep

Spec == Init /\ [][Next]_vars

\* A longer session in which the call and fold buttons are never pressed:
\* the user checks, raises, goes all-in and asks for new hands.
StackNext ==
    \/ events < MaxStackEvents /\ OnCheck
    \/ events < MaxStackEvents /\ OnRaise
    \/ events < MaxStackEvents /\ OnAllIn
    \/ events < MaxStackEvents /\ OnNewHand
    \/ events < MaxStackEvents /\ BotStep

StackSpec == Init /\ [][StackNext]_vars

(***************************************************************************)
(* The same program started on a chosen deal: the shuffle of the first     *)
(* hand is drawn from Deals, so that the hands the evaluator and the       *)
(* showdown are given are the ones listed here.  A deal lists seat 0's two *)
(* hole cards, seat 1's two hole cards, the flop, the turn and the river.  *)
(***************************************************************************)
Cards(vs) == [i \in 1..Len(vs) |-> Card(vs[i][1], vs[i][2])]

\* A-A against K-K on 2 7 9 J 3
PairsDeal == Cards(<<<<14, 0>>, <<14, 1>>, <<13, 0>>, <<13, 1>>,
                     <<2, 2>>, <<7, 3>>, <<9, 0>>, <<11, 1>>, <<3, 2>>>>)
\* the royal flush in spades on the board; seat 0 holds the ace and king of hearts
RoyalBoardDeal == Cards(<<<<14, 1>>, <<13, 1>>, <<2, 2>>, <<3, 2>>,
                          <<10, 0>>, <<11, 0>>, <<12, 0>>, <<13, 0>>, <<14, 0>>>>)
\* the royal flush in spades split between seat 0's hole cards and the flop
RoyalSplitDeal == Cards(<<<<14, 0>>, <<13, 0>>, <<9, 1>>, <<9, 2>>,
                          <<12, 0>>, <<11, 0>>, <<10, 0>>, <<2, 1>>, <<3, 2>>>>)
\* seat 1 makes the wheel on the flop; seat 0 ends with kings and nines
WheelDeal == Cards(<<<<9, 3>>, <<13, 2>>, <<14, 0>>, <<2, 1>>,
                     <<3, 2>>, <<4, 3>>, <<5, 0>>, <<9, 1>>, <<13, 3>>>>)
\* seat 0 makes four nines, seat 1 kings full of nines
QuadsDeal == Cards(<<<<9, 0>>, <<9, 1>>, <<13, 0>>, <<13, 1>>,
                     <<9, 2>>, <<9, 3>>, <<13, 2>>, <<2, 0>>, <<3, 1>>>>)
\* seat 0 makes three sevens, seat 1 queens and jacks
TripsDeal == Cards(<<<<7, 0>>, <<7, 1>>, <<12, 0>>, <<11, 1>>,
                     <<7, 2>>, <<12, 3>>, <<11, 0>>, <<2, 3>>, <<4, 2>>>>)
\* a straight 5..9 on the board under two small pairs
StraightBoardDeal == Cards(<<<<2, 1>>, <<2, 2>>, <<3, 1>>, <<3, 2>>,
                             <<5, 0>>, <<6, 1>>, <<7, 2>>, <<8, 3>>, <<9, 0>>>>)
\* seat 0 makes an ace-high flush in hearts on the flop
FlushDeal == Cards(<<<<14, 1>>, <<9, 1>>, <<13, 0>>, <<12, 2>>,
                     <<2, 1>>, <<5, 1>>, <<8, 1>>, <<11, 3>>, <<3, 0>>>>)
\* a flush in hearts on the board; neither player holds a heart
FlushBoardDeal == Cards(<<<<13, 0>>, <<12, 0>>, <<14, 2>>, <<11, 2>>,
                          <<2, 1>>, <<3, 1>>, <<5, 1>>, <<6, 1>>, <<8, 1>>>>)

Deals == {PairsDeal, RoyalBoardDeal, RoyalSplitDeal, WheelDeal, QuadsDeal,
          TripsDeal, StraightBoardDeal, FlushDeal, FlushBoardDeal}

HandInit ==
    \E deal \in Deals :
        /\ game = start_hand(PokerGame_new, deal)
        /\ pc = "idle"
        /\ last = Call("start_hand", "", None, 0, TRUE, PokerGame_new,
                       start_hand(PokerGame_new, deal))
        /\ events = 0

HandNext ==
    \/ events < MaxHandEvents /\ OnCheck
    \/ events < MaxHandEvents /\ OnCall
    \/ events < MaxHandEvents /\ OnFold
    \/ events < MaxHandEvents /\ OnRaise
    \/ events < MaxHandEvents /\ OnAllIn
    \/ events < MaxHandEvents /\ OnNewHand
    \/ events < MaxHandEvents /\ BotStep

HandSpec == HandInit /\ [][HandNext]_vars

\* A chosen deal called and checked down: the user only calls and checks,
\* the bot moves as make_bot_move lets it.
CheckDownNext ==
    \/ events < MaxCheckDownEvents /\ OnCheck
    \/ events < MaxCheckDownEvents /\ OnCall
    \/ events < MaxCheckDownEvents /\ BotStep

CheckDownSpec == HandInit /\ [][CheckDownNext]_vars

\* A chosen deal bet down to the showdown: the user checks, calls and
\* raises, the bot moves as make_bot_move lets it.
BetDownNext ==
    \/ events < MaxBetDownEvents /\ OnCheck
    \/ events < MaxBetDownEvents /\ OnCall
    \/ events < MaxBetDownEvents /\ OnRaise
    \/ events < MaxBetDownEvents /\ BotStep

BetDownSpec == HandInit /\ [][BetDownNext]_vars

(***************************************************************************)
(* Properties.  `last` holds the most recent call: last.before is the game *)
(* the call was made on, last.after the game as player_action (or          *)
(* start_hand) itself left it, before any check_phase_complete.            *)
(***************************************************************************)
IsPlayerAction == last.op = "player_action"
IsRaise(action) == action \in {"bet", "raise"}
\* the seat the last call acted for, before and after the call
Before == last.before.players[last.seat]
After == last.after.players[last.seat]
\* target of a bet/raise (main.rs:608)
Target == Max2(unwrap_or(last.amount, 0), last.before.current_bet + MIN_RAISE)

\* C1: in every state of a hand before the showdown payout, the pot equals
\* 2*STARTING_CHIPS minus the two stacks (chip conservation).
C1_ChipConservation ==
    ~game.showdown_done =>
        game.pot = 2 * STARTING_CHIPS - game.players[0].chips - game.players[1].chips

\* C2: a player_action call that returns false leaves pot, current_bet,
\* phase, current_player and every player's chips, bet and hole cards as
\* they were before the call.
C2_FailedActionLeavesState ==
    (IsPlayerAction /\ ~last.ok) =>
        /\ last.after.pot = last.before.pot
        /\ last.after.current_bet = last.before.current_bet
        /\ last.after.phase = last.before.phase
        /\ last.after.current_player = last.before.current_player
        /\ \A i \in Seats :
              /\ last.after.players[i].chips = last.before.players[i].chips
              /\ last.after.players[i].bet = last.before.players[i].bet
              /\ last.after.players[i].cards = last.before.players[i].cards

\* C2 witness: a call was rejected for want of chips.
C2_Witness ==
    /\ IsPlayerAction
    /\ ~last.ok
    /\ last.action = "call"
    /\ Before.chips < last.before.current_bet - Before.bet

\* the Flop as a betting round opens: both players in, nothing bet
FreshFlop(g) ==
    /\ g.phase = "Flop"
    /\ active_players(g) = Seats
    /\ g.current_bet = 0
    /\ \A i \in Seats : g.players[i].bet = 0

AcceptedCheck(c) == c.op = "player_action" /\ c.action = "check" /\ c.ok

\* C3: from the opening of the Flop, a check and then a second check (each
\* followed by the phase-completion check) leave the game on the Turn with
\* 4 community cards and both bets 0.
C3_FlopCheckCheckReachesTurn ==
    [][(/\ AcceptedCheck(last)
        /\ FreshFlop(last.before)
        /\ game = check_phase_complete(last.after)
        /\ AcceptedCheck(last')
        /\ last'.before = game
        /\ game' = check_phase_complete(last'.after))
       => (/\ game'.phase = "Turn"
           /\ Len(game'.community_cards) = 4
           /\ \A i \in Seats : game'.players[i].bet = 0)]_vars

\* C4: whenever exactly one player still holds hole cards, and whenever the
\* phase is Showdown, the hand is reported complete.
C4_RoundCompleteOnEarlyWin ==
    (Cardinality(active_players(game)) = 1 \/ game.phase = "Showdown")
        => game.hand_complete

\* C5: no player_action is accepted for a seat whose hole cards are empty.
C5_FoldedSeatNeverActs ==
    ~(IsPlayerAction /\ last.ok /\ Before.cards = <<>>)

\* C6: every chip stack is >= 0 in every reachable state.
C6_ChipsNonNegative == \A i \in Seats : game.players[i].chips >= 0

\* C7: a bet/raise is accepted if and only if the stack covers the
\* incremental cost, target - the player's bet.
C7_RaiseAcceptedIffCovered ==
    (IsPlayerAction /\ IsRaise(last.action)) =>
        (last.ok <=> Before.chips >= Target - Before.bet)

\* C8: an accepted bet/raise moves exactly target - (the bet before) from
\* the stack to the pot, sets the player's bet and current_bet to target,
\* and passes the turn.
C8_RaiseMovesIncrement ==
    (IsPlayerAction /\ IsRaise(last.action) /\ last.ok) =>
        /\ After.chips = Before.chips - (Target - Before.bet)
        /\ last.after.pot = last.before.pot + (Target - Before.bet)
        /\ After.bet = Target
        /\ last.after.current_bet = Target
        /\ last.after.current_player = (last.seat + 1) % NumPlayers

\* C9: all-in is accepted if and only if the stack is > 0; it empties the
\* stack into the player's bet and the pot; current_bet becomes the new bet
\* when that is larger and is unchanged otherwise; the turn passes.
C9_AllIn ==
    (IsPlayerAction /\ last.action = "all-in") =>
        /\ last.ok <=> Before.chips > 0
        /\ last.ok =>
              /\ After.chips = 0
              /\ After.bet = Before.bet + Before.chips
              /\ last.after.pot = last.before.pot + Before.chips
              /\ last.after.current_bet =
                    IF After.bet > last.before.current_bet
                    THEN After.bet ELSE last.before.current_bet
              /\ last.after.current_player = (last.seat + 1) % NumPlayers

\* C9 witness: an accepted all-in for less than the bet to match.
C9_Witness ==
    /\ IsPlayerAction
    /\ last.action = "all-in"
    /\ last.ok
    /\ Before.chips > 0
    /\ After.bet < last.before.current_bet
    /\ last.after.current_bet = last.before.current_bet

\* C10: start_hand with dealer seat d leaves no community cards, phase
\* PreFlop, the completion flags false, the small blind on seat (d+1) mod 2
\* and the big blind on seat d, each paid from its stack, pot and
\* current_bet set from the blinds, two hole cards each, and the turn on
\* seat (d+1) mod 2.
C10_StartHand ==
    (last.op = "start_hand") =>
        LET d == last.before.dealer_position
            sb == (d + 1) % 2
        IN /\ game = last.after
           /\ game.dealer_position = d
           /\ game.community_cards = <<>>
           /\ game.phase = "PreFlop"
           /\ ~game.hand_complete
           /\ ~game.showdown_done
           /\ game.players[sb].bet = SMALL_BLIND
           /\ game.players[d].bet = BIG_BLIND
           /\ game.players[sb].chips = last.before.players[sb].chips - SMALL_BLIND
           /\ game.players[d].chips = last.before.players[d].chips - BIG_BLIND
           /\ game.pot = SMALL_BLIND + BIG_BLIND
           /\ game.current_bet = BIG_BLIND
           /\ \A i \in Seats : Len(game.players[i].cards) = 2
           /\ game.current_player = sb

\* C10 witness: a hand started by the new-hand callback with seat 1 as
\* dealer, on a game whose previous hand was played to its showdown.
C10_Witness ==
    /\ last.op = "start_hand"
    /\ last.before.dealer_position = 1
    /\ last.before.showdown_done
    /\ last.before.pot > SMALL_BLIND + BIG_BLIND

(***************************************************************************)
(* The showdown as the last call reached it: the action left the game on   *)
(* the River with the bets matched, and the phase-completion check that    *)
(* followed ran do_showdown on last.after.                                 *)
(***************************************************************************)
ShowdownResolved ==
    /\ IsPlayerAction
    /\ last.after.phase = "River"
    /\ game.phase = "Showdown"

\* the two hands do_showdown compares (main.rs:885-891)
user_eval_at(g) == evaluate_hand(g.players[0].cards, g.community_cards)
bot_eval_at(g) == evaluate_hand(g.players[1].cards, g.community_cards)
\* what the showdown paid to seat i
Paid(i) == game.players[i].chips - last.after.players[i].chips

\* C11: when the two active players' hands compare equal at showdown, each
\* receives floor(pot/2); the total paid never exceeds the pot and falls
\* short of it by at most one chip.
C11_SplitPot ==
    (/\ ShowdownResolved
     /\ active_players(last.after) = Seats
     /\ compare_hands(user_eval_at(last.after), bot_eval_at(last.after)) = 0)
    => /\ \A i \in Seats : Paid(i) = last.after.pot \div 2
       /\ Paid(0) + Paid(1) <= last.after.pot
       /\ last.after.pot - (Paid(0) + Paid(1)) <= 1

\* C11 witness: a tied showdown between two active players over a pot of
\* an odd number of chips, one of which is paid to neither.
C11_Witness ==
    /\ ShowdownResolved
    /\ active_players(last.after) = Seats
    /\ compare_hands(user_eval_at(last.after), bot_eval_at(last.after)) = 0
    /\ last.after.pot % 2 = 1
    /\ \A i \in Seats : Paid(i) > 0
    /\ Paid(0) + Paid(1) = last.after.pot - 1

\* stacks, pot and flags of two games agree
SameMoneyAndFlags(g1, g2) ==
    /\ \A i \in Seats : g1.players[i].chips = g2.players[i].chips
    /\ g1.pot = g2.pot
    /\ g1.showdown_done = g2.showdown_done
    /\ g1.hand_complete = g2.hand_complete
    /\ g1.game_over = g2.game_over

\* C12: do_showdown on a hand that is already resolved changes no stack,
\* pot or flag, and an action on a resolved hand, with the phase-completion
\* check that follows it, pays nothing out again.
C12_ShowdownIdempotent ==
    /\ game.showdown_done => SameMoneyAndFlags(do_showdown(game), game)
    /\ (IsPlayerAction /\ last.before.showdown_done)
          => SameMoneyAndFlags(game, last.after)

\* C12 witness: an accepted action on a resolved hand whose pot is not
\* empty, followed by a phase-completion check that found the bets matched.
C12_Witness ==
    /\ IsPlayerAction
    /\ last.ok
    /\ last.before.showdown_done
    /\ all_players_matched(last.after)
    /\ game.showdown_done
    /\ game.pot > 0

(***************************************************************************)
(* Poker hands as the rules define them, read off all the cards of a hand  *)
(* (no card is dropped): what the evaluator's result is compared with.     *)
(***************************************************************************)
\* the cards seat i plays: its hole cards and the community cards
AllCards(g, i) == g.players[i].cards \o g.community_cards
RankCount(cs, v) == Cardinality({k \in 1..Len(cs) : cs[k].value = v})
RanksOccurring(cs, n) == {v \in Values : RankCount(cs, v) = n}
HasRank(cs, v) == RankCount(cs, v) > 0
HasFlush(cs) ==
    \E su \in Suits : Cardinality({k \in 1..Len(cs) : cs[k].suit = su}) >= 5
\* the high cards of the straights in cs; the ace plays low in 5-4-3-2-A
StraightHighs(cs) ==
    {h \in 5..14 : \A v \in (h - 4)..h : HasRank(cs, IF v = 1 THEN 14 ELSE v)}
HasStraight(cs) == StraightHighs(cs) # {}
\* exactly one pair and nothing better
OnePairOnly(cs) ==
    /\ Cardinality(RanksOccurring(cs, 2)) = 1
    /\ RanksOccurring(cs, 3) = {}
    /\ RanksOccurring(cs, 4) = {}
    /\ ~HasFlush(cs)
    /\ ~HasStraight(cs)
PairRank(cs) == SetMax(RanksOccurring(cs, 2))
\* the n highest ranks of cs other than those in `used`
RECURSIVE BestKickers(_, _, _)
BestKickers(cs, used, n) ==
    LET left == {v \in Values : HasRank(cs, v) /\ v \notin used}
    IN IF n = 0 \/ left = {} THEN {}
       ELSE {SetMax(left)} \cup BestKickers(cs, used \cup {SetMax(left)}, n - 1)

\* C13: at a showdown between two active players who each hold exactly one
\* pair and nothing better, each hand evaluates to Pair with the pair's rank
\* as primary value and the three best kickers as secondary values, and the
\* player with the higher pair receives the entire pot.
C13_PairShowdown ==
    (/\ ShowdownResolved
     /\ active_players(last.after) = Seats
     /\ \A i \in Seats : OnePairOnly(AllCards(last.after, i)))
    => LET cs(i) == AllCards(last.after, i)
           ev(i) == evaluate_hand(last.after.players[i].cards,
                                  last.after.community_cards)
       IN /\ \A i \in Seats :
                /\ ev(i).rank = Pair
                /\ ev(i).primary_value = PairRank(cs(i))
                /\ Range(ev(i).secondary_values)
                      = BestKickers(cs(i), {PairRank(cs(i))}, 3)
          /\ \A i \in Seats :
                PairRank(cs(i)) > PairRank(cs(1 - i))
                  => Paid(i) = last.after.pot /\ Paid(1 - i) = 0

\* the ten, jack, queen, king and ace of one suit are among cs
HasRoyal(cs) ==
    \E su \in Suits : \A v \in 10..14 : \E k \in 1..Len(cs) : cs[k] = Card(v, su)

\* C14: seven cards that include the ten, jack, queen, king and ace of one
\* suit evaluate to StraightFlush with primary value 14, whatever the other
\* two cards are and however the seven are split into hole and community
\* cards.
C14_RoyalIsStraightFlush ==
    \A i \in Seats :
        (Len(AllCards(game, i)) = 7 /\ Len(game.players[i].cards) = 2
           /\ HasRoyal(AllCards(game, i)))
        => LET ev == evaluate_hand(game.players[i].cards, game.community_cards)
           IN ev.rank = StraightFlush /\ ev.primary_value = 14

\* C15: a hand whose ranks are 2, 3, 4, 5 and ace, not all of one suit,
\* evaluates to Straight with primary value 5.
C15_WheelIsFiveHigh ==
    \A i \in Seats :
        LET cs == AllCards(game, i)
        IN (/\ Len(game.players[i].cards) = 2
            /\ Len(cs) = 5
            /\ {cs[k].value : k \in 1..Len(cs)} = {2, 3, 4, 5, 14}
            /\ ~HasFlush(cs))
           => LET ev == evaluate_hand(game.players[i].cards, game.community_cards)
              IN ev.rank = Straight /\ ev.primary_value = 5

(***************************************************************************)
(* The order compare_hands puts on the results of evaluate_hand.           *)
(***************************************************************************)
\* the evaluated 5-, 6- and 7-card hands of the chosen deals: either seat's
\* hole cards with the flop, with flop and turn, and with the whole board
EvalHands ==
    {evaluate_hand(SubSeq(d, 2 * i + 1, 2 * i + 2), SubSeq(d, 5, 4 + n)) :
        d \in Deals, i \in Seats, n \in 3..5}

Sign(x) == IF x > 0 THEN 1 ELSE IF x < 0 THEN -1 ELSE 0

\* C16: on the results of evaluate_hand for 5 to 7 cards, compare_hands is
\* a strict weak ordering: swapping the arguments flips the sign, 'less
\* than' is transitive, 'compares equal' is transitive, and a hand of a
\* higher category compares greater than one of a lower category.  The
\* first hand of each triple is one a player holds in the current state.
C16_CompareIsStrictWeakOrder ==
    \A i \in Seats :
        Len(game.players[i].cards) = 2 /\ Len(game.community_cards) >= 3
        => LET a == evaluate_hand(game.players[i].cards, game.community_cards)
           IN \A b \in EvalHands :
                /\ Sign(compare_hands(a, b)) = -Sign(compare_hands(b, a))
                /\ a.rank > b.rank => compare_hands(a, b) > 0
                /\ \A c \in EvalHands :
                      /\ (compare_hands(a, b) < 0 /\ compare_hands(b, c) < 0)
                            => compare_hands(a, c) < 0
                      /\ (compare_hands(a, b) = 0 /\ compare_hands(b, c) = 0)
                            => compare_hands(a, c) = 0

\* C16 witness: the showdown compared two hands that differ and compare
\* equal, and that hand beats a hand of a lower category and loses to
\* another hand of the deals.
C16_Witness ==
    /\ ShowdownResolved
    /\ active_players(last.after) = Seats
    /\ user_eval_at(last.after) # bot_eval_at(last.after)
    /\ compare_hands(user_eval_at(last.after), bot_eval_at(last.after)) = 0
    /\ \E c, d \in EvalHands :
          /\ compare_hands(user_eval_at(last.after), c) < 0
          /\ compare_hands(d, user_eval_at(last.after)) < 0
          /\ d.rank < user_eval_at(last.after).rank

\* C17: fewer than 5 cards in total are never ranked: when the bot is about
\* to move on two hole cards and fewer than three community cards, the
\* evaluation of its hand (make_bot_move, main.rs:665-669) is a failure, not
\* a hand with a rank.
C17_NoRankBelowFiveCards ==
    (/\ pc = "bot"
     /\ Len(game.players[game.current_player].cards) = 2
     /\ Len(AllCards(game, game.current_player)) < 5)
    => "rank" \notin DOMAIN evaluate_hand(game.players[game.current_player].cards,
                                          game.community_cards)

\* five cards in sequence, all of one suit
HasStraightFlush(cs) ==
    \E su \in Suits :
        LET OfSuit(c) == c.suit = su
        IN HasStraight(SelectSeq(cs, OfSuit))

\* the first category, from the best down, whose condition cs meets
Category(cs) ==
    IF HasStraightFlush(cs) THEN StraightFlush
    ELSE IF RanksOccurring(cs, 4) # {} THEN FourOfAKind
    ELSE IF RanksOccurring(cs, 3) # {}
            /\ (RanksOccurring(cs, 2) # {} \/ Cardinality(RanksOccurring(cs, 3)) >= 2)
         THEN FullHouse
    ELSE IF HasFlush(cs) THEN Flush
    ELSE IF HasStraight(cs) THEN Straight
    ELSE IF RanksOccurring(cs, 3) # {} THEN ThreeOfAKind
    ELSE IF Cardinality(RanksOccurring(cs, 2)) >= 2 THEN TwoPair
    ELSE IF RanksOccurring(cs, 2) # {} THEN Pair
    ELSE HighCard

\* C18: for 5 to 7 distinct cards evaluate_hand returns the first category,
\* from StraightFlush down to HighCard, whose condition the cards meet; the
\* primary value of FourOfAKind is the rank held four times, of FullHouse
\* and ThreeOfAKind the rank held three times, of TwoPair the higher pair.
C18_FirstMatchingCategory ==
    \A i \in Seats :
        LET cs == AllCards(game, i)
            ev == evaluate_hand(game.players[i].cards, game.community_cards)
        IN (Len(game.players[i].cards) = 2 /\ Len(cs) \in 5..7)
           => /\ ev.rank = Category(cs)
              /\ Category(cs) = FourOfAKind
                    => ev.primary_value = SetMax(RanksOccurring(cs, 4))
              /\ Category(cs) \in {FullHouse, ThreeOfAKind}
                    => ev.primary_value = SetMax(RanksOccurring(cs, 3))
              /\ Category(cs) = TwoPair
                    => ev.primary_value = SetMax(RanksOccurring(cs, 2))

(***************************************************************************)
(* Phase advances: the phase-completion check that followed the last       *)
(* action moved the game from last.after to the next phase.                *)
(***************************************************************************)
PhaseAdvanced ==
    /\ IsPlayerAction
    /\ game.phase # last.after.phase

\* C19: the phase advances only from a state in which every player who
\* still holds cards has a bet equal to current_bet.
C19_AdvanceOnlyWhenMatched ==
    PhaseAdvanced =>
        \A i \in Seats :
            last.after.players[i].cards # <<>>
              => last.after.players[i].bet = last.after.current_bet

\* C19 witness: an advance out of a round in which both players, still
\* holding cards, had matched a bet above zero.
C19_Witness ==
    /\ PhaseAdvanced
    /\ active_players(last.after) = Seats
    /\ last.after.current_bet > 0
    /\ last.action = "call"

\* C20: right after an advance into Flop, Turn or River every bet is 0,
\* current_bet is 0, the turn is on the seat after the dealer, and the
\* advance has changed neither the pot nor any stack.
C20_AdvanceResetsBets ==
    (PhaseAdvanced /\ game.phase \in {"Flop", "Turn", "River"}) =>
        /\ \A i \in Seats : game.players[i].bet = 0
        /\ game.current_bet = 0
        /\ game.current_player = (game.dealer_position + 1) % 2
        /\ game.pot = last.after.pot
        /\ \A i \in Seats : game.players[i].chips = last.after.players[i].chips

\* C20 witness: an advance into the Turn out of a round with a bet above
\* zero, which moved the turn from where the last action had passed it.
C20_Witness ==
    /\ PhaseAdvanced
    /\ game.phase = "Turn"
    /\ last.after.current_bet > 0
    /\ game.pot > 0
    /\ last.after.current_player # game.current_player

(***************************************************************************)
(* The cards of a hand.                                                    *)
(***************************************************************************)
\* the number of community cards each phase shows (main.rs:517-540)
CommunityCount(phase) ==
    CASE phase = "PreFlop" -> 0
      [] phase = "Flop" -> 3
      [] phase = "Turn" -> 4
      [] phase = "River" -> 5
      [] phase = "Showdown" -> 5

IsPrefix(s, t) == Len(s) <= Len(t) /\ SubSeq(t, 1, Len(s)) = s

\* C21: the number of community cards is fixed by the phase (0 in PreFlop,
\* 3 in Flop, 4 in Turn, 5 in River and in Showdown), and within a hand
\* the community cards are only added to: the cards on the table before an
\* action are still there, in place, after it and its phase advance.
C21_CommunityByPhase ==
    /\ Len(game.community_cards) = CommunityCount(game.phase)
    /\ IsPlayerAction =>
          /\ last.after.community_cards = last.before.community_cards
          /\ IsPrefix(last.before.community_cards, game.community_cards)

\* C21 witness: an action on the Turn whose phase advance dealt the river
\* card after the four cards already on the table.
C21_Witness ==
    /\ IsPlayerAction
    /\ last.before.phase = "Turn"
    /\ game.phase = "River"
    /\ Len(last.before.community_cards) = 4
    /\ Len(game.community_cards) = 5
    /\ IsPrefix(last.before.community_cards, game.community_cards)

\* every card a game holds outside the deck: both players' hole cards and
\* the community cards
HeldCards(g) == g.players[0].cards \o g.players[1].cards \o g.community_cards

\* C22: within a hand the cards held (hole cards and community cards) are
\* pairwise distinct, none of them is still in the deck, and every card
\* asked of the deck was there: each player who has not folded holds two
\* cards, and the deck holds the 52 cards less the four hole cards dealt
\* and the community cards.
C22_CardsDistinct ==
    /\ Cardinality(Range(HeldCards(game))) = Len(HeldCards(game))
    /\ Range(HeldCards(game)) \cap Range(game.deck) = {}
    /\ Range(HeldCards(game)) \cup Range(game.deck) \subseteq Range(create_deck)
    /\ Cardinality(Range(game.deck)) = Len(game.deck)
    /\ \A i \in Seats : Len(game.players[i].cards) \in {0, 2}
    /\ last.op = "start_hand" => \A i \in Seats : Len(game.players[i].cards) = 2
    /\ Len(game.deck) = 52 - 4 - Len(game.community_cards)

\* C22 witness: the River with both players in the hand, nine cards held
\* and 43 left in the deck.
C22_Witness ==
    /\ IsPlayerAction
    /\ game.phase = "River"
    /\ active_players(game) = Seats
    /\ Len(HeldCards(game)) = 9
    /\ Cardinality(Range(HeldCards(game))) = 9
    /\ Len(game.deck) = 43

(***************************************************************************)
(* The pot of a hand.                                                      *)
(***************************************************************************)
Stacks(g) == g.players[0].chips + g.players[1].chips

\* C23: within a hand, before the payout, the pot is the chips taken from
\* the two stacks since start_hand.  start_hand leaves a pot equal to what
\* the blinds took; every player_action takes from the acting stack exactly
\* what it adds to the pot, takes nothing from the other stack, never adds
\* to a stack and never lowers the pot; the phase advance that follows
\* moves no chips.
C23_PotIsChipsDeducted ==
    ~game.showdown_done =>
        /\ last.op = "start_hand" =>
              /\ game = last.after
              /\ game.pot = Stacks(last.before) - Stacks(game)
              /\ \A i \in Seats : game.players[i].chips <= last.before.players[i].chips
        /\ last.op = "game_over" => game = last.before
        /\ IsPlayerAction =>
              /\ last.after.pot - last.before.pot = Before.chips - After.chips
              /\ last.after.pot >= last.before.pot
              /\ \A i \in Seats \ {last.seat} :
                    last.after.players[i].chips = last.before.players[i].chips
              /\ game.pot = last.after.pot
              /\ \A i \in Seats : game.players[i].chips = last.after.players[i].chips

\* C23 witness: an all-in, before any payout, by a player who already had
\* a bet on the table: the pot grew by the stack, not by the new bet.
C23_Witness ==
    /\ ~game.showdown_done
    /\ IsPlayerAction
    /\ last.ok
    /\ last.action = "all-in"
    /\ Before.bet > 0
    /\ Before.chips > 0
    /\ After.chips = 0
    /\ game.pot = last.before.pot + Before.chips

(***************************************************************************)
(* Betting rounds.                                                         *)
(***************************************************************************)
\* the call recorded in c opened the phase of g: it was start_hand, or an
\* action of an earlier phase (the one whose phase-completion check
\* advanced the game into g's phase)
OpenedPhase(c, g) ==
    \/ c.op = "start_hand"
    \/ c.op = "player_action" /\ c.before.phase # g.phase

\* C24: a betting phase does not advance on the first action taken in it
\* while both players hold cards: when an action is the first since the
\* phase opened, the other player has not acted in the phase yet, and the
\* phase-completion check that follows leaves the phase as it is.
C24_NoAdvanceBeforeAllActed ==
    [][(/\ last'.op = "player_action"
        /\ last'.before = game
        /\ OpenedPhase(last, game)
        /\ ~game.hand_complete
        /\ active_players(last'.after) = Seats)
       => game'.phase = game.phase]_vars

\* some action other than fold is accepted for the player to act in g; a
\* bet or raise is tried with the smallest target, current_bet + MIN_RAISE
NonFoldAccepted(g) ==
    \E action \in {"check", "call", "bet", "raise", "all-in"} :
        player_action(g, action, None).ok

\* C25: while the hand is not complete and the player to act still holds
\* cards, at least one of check, call, bet/raise and all-in is accepted
\* for that player: fold is never the only accepted action.
C25_NeverOnlyFold ==
    (~game.hand_complete /\ game.players[game.current_player].cards # <<>>)
        => NonFoldAccepted(game)

\* C26: whenever do_showdown resolves a hand, the pot is awarded: the two
\* stacks together grow by the pot, or by one chip less when two players
\* split it, whether two, one or no player still holds cards.
C26_PotAwarded ==
    ShowdownResolved =>
        LET awarded == Stacks(game) - Stacks(last.after)
        IN \/ awarded = last.after.pot
           \/ /\ active_players(last.after) = Seats
              /\ awarded = last.after.pot - 1

(***************************************************************************)
(* The end of the game.                                                    *)
(***************************************************************************)
SomeStackEmpty(g) == \E i \in Seats : g.players[i].chips <= 0

\* C27: is_game_over() is true only when some stack is <= 0, and a
\* new-hand request made while both stacks are above 0 leaves both stacks
\* as they were (it does not set them back to STARTING_CHIPS).
C27_GameOverOnlyWhenBroke ==
    /\ is_game_over(game) => SomeStackEmpty(game)
    /\ (last.op = "game_over" /\ ~SomeStackEmpty(last.before))
          => \A i \in Seats :
                game.players[i].chips = last.before.players[i].chips

\* C28: a player_action called on a complete hand (phase Showdown,
\* hand_complete set) changes no stack, no bet, no hole cards and not the
\* pot.
C28_NoActionAfterHandComplete ==
    (/\ IsPlayerAction
     /\ last.before.hand_complete
     /\ last.before.phase = "Showdown")
        => /\ last.after.pot = last.before.pot
           /\ \A i \in Seats :
                 /\ last.after.players[i].chips = last.before.players[i].chips
                 /\ last.after.players[i].bet = last.before.players[i].bet
                 /\ last.after.players[i].cards = last.before.players[i].cards

(***************************************************************************)
(* The bet to match.                                                       *)
(***************************************************************************)
\* current_bet is the largest bet on the table
BetsBounded(g) ==
    /\ \A i \in Seats : g.players[i].bet <= g.current_bet
    /\ \E i \in Seats : g.players[i].bet = g.current_bet

\* C29: in every state, between an action and its phase-completion check
\* included, every bet is <= current_bet and current_bet is the largest
\* bet; so the amount to call is never negative, and a check is accepted
\* exactly when the player's bet equals current_bet.
C29_CurrentBetIsMaxBet ==
    /\ BetsBounded(game)
    /\ game.current_bet - game.players[game.current_player].bet >= 0
    /\ IsPlayerAction =>
          /\ BetsBounded(last.before)
          /\ BetsBounded(last.after)
          /\ last.action = "check" =>
                (last.ok <=> Before.bet = last.before.current_bet)

\* C29 witness: a check rejected for a player whose bet is below a
\* current_bet that a raise has put above the big blind.
C29_Witness ==
    /\ IsPlayerAction
    /\ last.action = "check"
    /\ ~last.ok
    /\ Before.bet < last.before.current_bet
    /\ last.before.current_bet > BIG_BLIND
    /\ BetsBounded(game)

(***************************************************************************)
(* evaluate_hand as a function of the set of cards.                        *)
(***************************************************************************)
\* cs without the cards at positions a and b
Without(cs, a, b) ==
    LET Keep(k) == k # a /\ k # b
    IN [k \in 1..(Len(cs) - 2) |->
          cs[SelectSeq([n \in 1..Len(cs) |-> n], Keep)[k]]]

\* C30: the result of evaluate_hand depends only on the set of cards: for
\* the cards of a player in the hand, every other split of them between
\* hole and community cards, and every other choice and order of the two
\* hole cards among them, gives the same rank, primary value and secondary
\* values.
C30_EvaluateDependsOnSetOnly ==
    \A i \in Seats :
        LET cs == AllCards(game, i)
            ev == evaluate_hand(game.players[i].cards, game.community_cards)
        IN Len(game.players[i].cards) = 2 =>
             /\ \A k \in 0..Len(cs) :
                   evaluate_hand(Take(cs, k), Skip(cs, k)) = ev
             /\ \A a \in 1..Len(cs) : \A b \in (1..Len(cs)) \ {a} :
                   evaluate_hand(<<cs[a], cs[b]>>, Without(cs, a, b)) = ev

=============================================================================
